---- MODULE Spec2Model ----
(***************************************************************************)
(* The accessibility-tree streaming adapters of platforms/unix2.           *)
(*                                                                         *)
(* Two realizations live in the crate directory and are modelled side by   *)
(* side; `variant` says which one a behaviour runs:                        *)
(*   "sock"  adapter.rs: datagram sockets, descriptor passing and an       *)
(*           async executor on the adapter thread;                         *)
(*   "wl"    lib.rs, worker.rs, state.rs: a calloop event loop on a        *)
(*           worker thread that speaks a Wayland protocol.                 *)
(*                                                                         *)
(* The tree is opaque to this code (Tree::new, Tree::update and            *)
(* state().serialize()), so a tree value is the history that built it:     *)
(* <<0>> is the tree made from the tree source's snapshot, and             *)
(* Append(t, u) the tree t after update u.  Updates are numbered in the    *)
(* order in which the application produces them.                           *)
(*                                                                         *)
(* Two further sections model, each on its own, the handlers of the        *)
(* workers and the android and consumer crates' functions.                 *)
(***************************************************************************)
EXTENDS Naturals, Sequences, FiniteSets

\* Bounds of the model.
MaxRecv == 2
MaxCalls == 1
MaxActions == 2
MaxDrops == 2

\* state.rs: `let mut reader_buffer = [0; 4096];`
ReaderBufLen == 4096

Receivers == 1..MaxRecv
Actions == 1..MaxActions
Requests == {1, 2}

VARIABLES
    variant,        \* "sock" | "wl"; "jni_init" | "do_action" | "consumer" in LibSpec
    env,            \* wl: what the compositor asks for: "updates" | "actions"
    app,            \* where the application thread is in the Adapter's life
    worker,         \* the worker thread
    factory_thr,    \* the threads on which the tree source was invoked, in order
    handler_calls,  \* the invocations of ActionHandler::do_action, in order
    nupd,           \* number of tree updates the application has produced
    s_upd_ch,       \* sock: contents of the mpsc::channel(0) of TreeUpdate
    s_tree,         \* sock: the Tree moved into adapter_thread
    s_shutdown,     \* sock: the oneshot shutdown message has been sent
    w_ch,           \* wl: the calloop channel of worker::Command
    w_exit,         \* wl: State::exit
    w_lock,         \* wl: the registry mutex: "free" | "worker" | "poisoned"
    w_tree,         \* wl: State::tree (LazyTree); Unforced until forced
    w_inst,         \* wl: the registry (Adapter::instances / update_receivers)
    w_recv,         \* wl: each receiver object's life
    w_acc,          \* wl: updates produced before the receiver was accepted
    w_out,          \* wl: per receiver, the pipes announced to it, in order
    w_act,          \* wl: per action request, its pipe and its read source
    w_closed,       \* wl: the channel's sending side: "no" | "dropped" | "seen"
    s_txs,          \* sock: tree_update_txs, each sender with its queue
    s_poll,         \* sock: the handler the poll of `main` is in
    s_act,          \* sock: what recv on the action socket yields next
    drops,          \* number of times Drop::drop has run on the Adapter
    n_shut,         \* shutdown signals (oneshot message, Exit) handed over
    n_join,         \* calls of JoinHandle::join
    JNI_CACHE,      \* android lib.rs: the static of that name
    CLASS_CACHE,    \* android classes.rs: the static of that name
    init_rets,      \* android: the calls of Adapter_initialize, in order
    a_tree,         \* android: Context::tree
    a_ctx,          \* android: who holds an Arc<Context>
    a_node,         \* android: the frame of PlatformNode::do_action
    a_calls,        \* android: the invocations of the action handler, in order
    a_rets,         \* android: the returns of do_action, in order
    c_tree,         \* consumer: the tree a Node is read from
    c_query         \* consumer: the last unignored_parent call and its result

vars == <<variant, env, app, worker, factory_thr, handler_calls, nupd,
          s_upd_ch, s_tree, s_shutdown,
          w_ch, w_exit, w_lock, w_tree, w_inst, w_recv, w_acc, w_out, w_act,
          w_closed, s_txs, s_poll, s_act, drops, n_shut, n_join,
          JNI_CACHE, CLASS_CACHE, init_rets, a_tree, a_ctx, a_node, a_calls, a_rets,
          c_tree, c_query>>

sockVars == <<s_upd_ch, s_tree, s_shutdown>>
wlVars == <<w_ch, w_exit, w_lock, w_tree, w_inst, w_recv, w_acc,
            w_out, w_act>>
initVars == <<JNI_CACHE, CLASS_CACHE, init_rets>>
nodeVars == <<a_tree, a_ctx, a_node, a_calls, a_rets>>
consVars == <<c_tree, c_query>>
libVars == <<initVars, nodeVars, consVars>>
hVars == <<w_closed, s_txs, s_poll, s_act, libVars>>
dropVars == <<drops, n_shut, n_join>>

----------------------------------------------------------------------------
\* The opaque tree and the payloads made from it.

Unforced == <<>>

\* Tree::new(source(), true)
TreeNew == <<0>>

\* Tree::update(update)
TreeUpdate(t, u) == Append(t, u)

\* serde_json::to_vec(&tree.state().serialize()): a full snapshot
SerializeState(t) == [kind |-> "state", val |-> t]

\* serde_json::to_vec(&update): one incremental update
SerializeUpdate(u) == [kind |-> "update", val |-> <<u>>]

\* The serialized bytes: one tag byte (83 for a snapshot, 85 for an update)
\* and one byte per element.
Bytes(p) == <<IF p.kind = "state" THEN 83 ELSE 85>> \o p.val

\* serialized.len()
SerLen(p) == Len(Bytes(p))

\* The tree after the first n updates, applied in order to the snapshot.
RECURSIVE ApplyFirst(_)
ApplyFirst(n) == IF n = 0 THEN TreeNew ELSE TreeUpdate(ApplyFirst(n - 1), n)

Min(a, b) == IF a <= b THEN a ELSE b

\* The orders in which a HashMap's values() may enumerate the set S.
Orderings(S) ==
    {f \in [1..Cardinality(S) -> S] : \A i, j \in 1..Cardinality(S) : f[i] = f[j] => i = j}

----------------------------------------------------------------------------
\* Action requests on the wire.

\* serde_json::to_vec(&request): the request followed by a terminator
Encode(r) == <<r, 0>>

\* A faulty decoder that accepts any bytes.
DecodeOk_Always(bytes) == TRUE

\* serde_json::from_slice::<ActionRequest>(&content).is_ok()
DecodeOk(bytes) == Len(bytes) = 2 /\ bytes[1] \in Requests /\ bytes[2] = 0

\* serde_json::from_slice::<ActionRequest>(&content).unwrap()
Decode(bytes) == bytes[1]

\* What a client may write into an action pipe: a well-formed request, a
\* request cut short, or bytes that are no request.
ActionBytes == {Encode(r) : r \in Requests} \cup {<<1>>, <<0, 0>>}

\* The action socket with nothing to receive: recv would block.  `tries` is
\* the parity of the number of recv calls that have failed.
NoDatagram == [st |-> "empty", bytes |-> <<>>, tries |-> 0]

\* An entry of tree_update_txs that does not exist.
NoTx == [live |-> FALSE, rx |-> "none", q |-> <<>>]

NoAct == [st |-> "none", sent |-> <<>>, rest |-> <<>>, avail |-> <<>>,
          closed |-> FALSE, content |-> <<>>]

\* No frame of do_action: the call has not been made or has returned.
NoFrame == [pc |-> "idle", pn |-> 0, id |-> 0, guard |-> FALSE, alive |-> FALSE]

\* The android and consumer crates untouched: nothing of them is in use.
LibIdle ==
    /\ JNI_CACHE = 0 /\ CLASS_CACHE = 0 /\ init_rets = <<>>
    /\ a_tree = [nodes |-> {}, root |-> 0]
    /\ a_ctx = [adapter |-> FALSE, held |-> FALSE]
    /\ a_node = NoFrame
    /\ a_calls = <<>> /\ a_rets = <<>>
    /\ c_tree = [parent |-> <<>>, ignored |-> <<>>, role |-> <<>>]
    /\ c_query = [node |-> 0, res |-> 0]

----------------------------------------------------------------------------
Init ==
    /\ LibIdle
    /\ variant \in {"sock", "wl"}
    /\ env \in {"updates", "actions"}
    /\ variant = "sock" => env = "updates"
    /\ app = "unborn"
    /\ worker = "none"
    /\ factory_thr = <<>>
    /\ handler_calls = <<>>
    /\ nupd = 0
    /\ s_upd_ch = <<>>
    /\ s_tree = Unforced
    /\ s_shutdown = FALSE
    /\ w_ch = <<>>
    /\ w_exit = FALSE
    /\ w_lock = "free"
    /\ w_tree = Unforced
    /\ w_inst = {}
    /\ w_recv = [r \in Receivers |-> "absent"]
    /\ w_acc = [r \in Receivers |-> 0]
    /\ w_out = [r \in Receivers |-> <<>>]
    /\ w_act = [a \in Actions |-> NoAct]
    /\ w_closed = "no"
    /\ s_txs = [r \in Receivers |-> NoTx]
    /\ s_poll = "actions"
    /\ s_act = NoDatagram
    /\ drops = 0
    /\ n_shut = 0
    /\ n_join = 0

\* The receiving ends the worker thread owns are alive while the thread is.
WorkerAlive == worker \in {"spawned", "running"}
WorkerGone == worker \in {"nospawn", "exited", "panicked"}

----------------------------------------------------------------------------
\* The socket realization (adapter.rs).

\* Adapter::new: the tree source is invoked and the Tree built by the caller,
\* then the channels are made and the adapter thread is spawned.
SockNew ==
    /\ variant = "sock" /\ app = "unborn"
    /\ factory_thr' = Append(factory_thr, "app")
    /\ s_tree' = TreeNew
    /\ worker' = "spawned"
    /\ app' = "live"
    /\ UNCHANGED <<hVars, dropVars, variant, env, handler_calls, nupd, s_upd_ch, s_shutdown, wlVars>>

\* select_all(tasks) of futures_util: "This function will panic if the
\* iterator specified contains no items."
select_all_panics(tasks) == tasks = {}

\* adapter_thread: block_on(ex.run(main)) polls main, and `or` polls its left
\* operand first, so handle_tasks runs first.  Its first loop iteration builds
\* select(task_rx.next(), select_all(tasks)) with the empty `tasks` it has just
\* created: the thread unwinds, dropping tree_update_rx (and the updates
\* queued in it), shutdown_rx and both sockets.
SockAdapterThread ==
    /\ variant = "sock" /\ worker = "spawned"
    /\ select_all_panics({})
    /\ worker' = "panicked"
    /\ s_upd_ch' = <<>>
    /\ UNCHANGED <<hVars, dropVars, variant, env, app, factory_thr, handler_calls, nupd, s_tree,
                   s_shutdown, wlVars>>

\* Adapter::update, up to the point where tx.send(update) has fed the update
\* into the channel.  With the receiver gone send fails and unwrap panics.
\* Otherwise the sender owns one slot of the channel(0), queues the update
\* and waits in flush for the receiver to take it.
SockUpdate ==
    /\ variant = "sock" /\ app = "live" /\ nupd < MaxCalls
    /\ nupd' = nupd + 1
    /\ IF WorkerAlive
          THEN /\ s_upd_ch' = Append(s_upd_ch, nupd + 1)
               /\ app' = "flushing"
          ELSE /\ app' = "panic_update"
               /\ UNCHANGED s_upd_ch
    /\ UNCHANGED <<hVars, dropVars, variant, env, worker, factory_thr, handler_calls, s_tree,
                   s_shutdown, wlVars>>

\* Adapter::update returning: the flush ends when the receiver has taken the
\* update, or when the receiver is dropped (a disconnected sink counts as
\* flushed), and send yields Ok.
SockUpdateFlushed ==
    /\ variant = "sock" /\ app = "flushing"
    /\ s_upd_ch = <<>> \/ WorkerGone
    /\ app' = "live"
    /\ UNCHANGED <<hVars, dropVars, variant, env, worker, factory_thr, handler_calls, nupd, sockVars,
                   wlVars>>

\* Drop for Adapter, first statement: shutdown_tx.take() yields the sender
\* the first time, and shutdown_tx.send(()).unwrap() fails once the receiver
\* has been dropped.
SockDropShutdown ==
    /\ variant = "sock" /\ app = "live"
    /\ drops' = drops + 1
    /\ IF WorkerAlive
          THEN /\ s_shutdown' = TRUE
               /\ n_shut' = n_shut + 1
               /\ app' = "closing"
          ELSE /\ app' = "panic_drop"
               /\ UNCHANGED <<s_shutdown, n_shut>>
    /\ UNCHANGED <<hVars, n_join, variant, env, worker, factory_thr, handler_calls, nupd, s_upd_ch,
                   s_tree, wlVars>>

\* Drop for Adapter, second statement: thread.join().unwrap() waits for the
\* thread to end; join yields Err for a thread that panicked.
SockDropJoin ==
    /\ variant = "sock" /\ app = "closing"
    /\ WorkerGone
    /\ n_join' = n_join + 1
    /\ app' = IF worker = "panicked" THEN "panic_drop" ELSE "dropped"
    /\ UNCHANGED <<hVars, drops, n_shut, variant, env, worker, factory_thr, handler_calls, nupd, sockVars,
                   wlVars>>

----------------------------------------------------------------------------
\* The Wayland realization: the Adapter handle (lib.rs).

Cmd(type, a, b) == [type |-> type, a |-> a, b |-> b]

\* One entry of w_out[r]: a pipe whose read end was announced to receiver r.
\* st: "cmd"  its WriteUpdate command is still in the channel,
\*     "open" the write source is registered with the event loop,
\*     "done" every byte was written, "err" a write failed.
\* out: the bytes the pipe has taken so far.
Pipe(payload, st) == [pl |-> payload, written |-> 0, st |-> st, out |-> <<>>]

\* Adapter::new and worker::spawn: the channel and the registry are made and
\* the thread is spawned; Builder::spawn may fail, and `.ok()` then leaves no
\* thread and drops request_rx with the closure.  The tree source is moved to
\* the thread, not called.
WlNew(spawned) ==
    /\ variant = "wl" /\ app = "unborn"
    /\ app' = "live"
    /\ worker' = IF spawned THEN "spawned" ELSE "nospawn"
    /\ UNCHANGED <<hVars, dropVars, variant, env, factory_thr, handler_calls, nupd, sockVars, wlVars>>

\* A faulty is_empty check that never reports an empty registry.
IsIdle_Never(inst) == FALSE

\* update_if_active: `instances.is_empty()`
IsIdle(inst) == inst = {}

\* A faulty distribution loop that stops after the first instance.
WriteUpdates_First(order) ==
    [k \in 1..Min(1, Len(order)) |-> Cmd("WriteUpdate", order[k], Len(w_out[order[k]]) + 1)]

\* A faulty loop that takes the instances out of the registry.
values_Drain(inst) == {}

\* update_if_active: `for instance in instances.values()` borrows the
\* entries; the registry is left as it was.
values(inst) == inst

\* update_if_active: the WriteUpdate commands of one call, one per instance in
\* the order `order`, each naming the pipe appended to that receiver's list.
WriteUpdates(order) ==
    [k \in 1..Len(order) |-> Cmd("WriteUpdate", order[k], Len(w_out[order[k]]) + 1)]

\* Adapter::update_if_active.  The registry lock is held from the first line
\* to the return, so the call waits while the worker holds it and unwraps a
\* poisoned lock.  request_tx.send(..).unwrap() fails once the worker's
\* receiving end is gone.  A call that found the registry empty leaves the
\* application thread in "skipped".
WlUpdateIfActive ==
    /\ variant = "wl" /\ app \in {"live", "skipped"}
    /\ w_lock # "worker"
    /\ IF w_lock = "poisoned"
          THEN /\ app' = "panic_uia"
               /\ UNCHANGED <<nupd, w_ch, w_out, w_inst>>
          ELSE IF IsIdle(w_inst)
          THEN /\ app' = "skipped"
               /\ UNCHANGED <<nupd, w_ch, w_out, w_inst>>
          ELSE /\ nupd < MaxCalls
               /\ nupd' = nupd + 1
               /\ IF ~WorkerAlive
                     THEN /\ app' = "panic_uia"
                          /\ UNCHANGED <<w_ch, w_out, w_inst>>
                     ELSE \E order \in Orderings(w_inst) :
                          /\ app' = "live"
                          /\ w_inst' = values(w_inst)
                          /\ w_ch' = w_ch \o <<Cmd("UpdateTree", nupd + 1, 0)>>
                                          \o WriteUpdates(order)
                          /\ w_out' = [r \in Receivers |->
                                         IF r \in w_inst
                                            THEN Append(w_out[r],
                                                        Pipe(SerializeUpdate(nupd + 1), "cmd"))
                                            ELSE w_out[r]]
    /\ UNCHANGED <<hVars, dropVars, variant, env, worker, factory_thr, handler_calls, sockVars,
                   w_exit, w_lock, w_tree, w_recv, w_acc, w_act>>

\* Drop for Adapter, first statement: `let _ = request_tx.send(Command::Exit)`;
\* a failed send is ignored.
WlDropExit ==
    /\ variant = "wl" /\ app \in {"live", "skipped"}
    /\ app' = "closing"
    /\ drops' = drops + 1
    /\ w_ch' = IF WorkerAlive THEN Append(w_ch, Cmd("Exit", 0, 0)) ELSE w_ch
    /\ n_shut' = IF WorkerAlive THEN n_shut + 1 ELSE n_shut
    /\ UNCHANGED <<hVars, n_join, variant, env, worker, factory_thr, handler_calls, nupd, sockVars,
                   w_exit, w_lock, w_tree, w_inst, w_recv, w_acc,
                   w_out, w_act>>

\* Drop for Adapter, second statement: worker_thread.take() yields the
\* handle the first time, if spawn made a thread at all, and
\* `let _ = worker_thread.join()` returns when the thread has ended, whatever
\* its result.
WlDropJoin ==
    /\ variant = "wl" /\ app = "closing"
    /\ WorkerGone
    /\ app' = "dropped"
    /\ n_join' = IF worker = "nospawn" THEN n_join ELSE n_join + 1
    /\ UNCHANGED <<hVars, drops, n_shut, variant, env, worker, factory_thr, handler_calls,
                   nupd, sockVars, wlVars>>

\* Drop for Adapter run once more on a handle already torn down: the Exit
\* is sent again if there still is a receiving end, and worker_thread is None,
\* so nothing is joined.
WlDropAgain ==
    /\ variant = "wl" /\ app = "dropped" /\ drops < MaxDrops
    /\ drops' = drops + 1
    /\ w_ch' = IF WorkerAlive THEN Append(w_ch, Cmd("Exit", 0, 0)) ELSE w_ch
    /\ n_shut' = IF WorkerAlive THEN n_shut + 1 ELSE n_shut
    /\ UNCHANGED <<hVars, n_join, variant, env, app, worker, factory_thr, handler_calls,
                   nupd, sockVars, w_exit, w_lock, w_tree, w_inst, w_recv, w_acc,
                   w_out, w_act>>

----------------------------------------------------------------------------
\* The Wayland realization: the worker thread (worker.rs, state.rs).

\* The worker runs one callback at a time; the lock is held only inside
\* handle_new_update_receiver.
WorkerIdle == variant = "wl" /\ worker = "running" /\ w_lock # "worker"

\* worker_impl up to the loop: registry_queue_init may fail, and the thread
\* then returns; otherwise State::new wraps the tree source in a Lazy (without
\* calling it), exit is false and the channel is an event source.
WlWorkerInit(ok) ==
    /\ variant = "wl" /\ worker = "spawned"
    /\ worker' = IF ok THEN "running" ELSE "exited"
    /\ UNCHANGED <<hVars, dropVars, variant, env, app, factory_thr, handler_calls, nupd, sockVars,
                   wlVars>>

\* A faulty update_tree that takes the not-yet-forced branch every time.
update_tree_Dropped(tree, u) == tree

\* State::update_tree: an update reaches the tree only if the tree was forced.
update_tree(tree, u) == IF tree # Unforced THEN TreeUpdate(tree, u) ELSE tree

\* A faulty write_update that drops the descriptor without arming a source.
write_update_Dropped(out, r, i) == out

\* State::write_update: the pipe becomes a write source of the event loop.
write_update(out, r, i) == [out EXCEPT ![r][i].st = "open"]

\* A faulty channel that delivers the newest message first.
Recv_Lifo(ch) == [msg |-> ch[Len(ch)], rest |-> SubSeq(ch, 1, Len(ch) - 1)]

\* The channel source delivers `channel::Event::Msg(event)` for the oldest
\* message that was sent and not yet delivered.
Recv(ch) == [msg |-> Head(ch), rest |-> Tail(ch)]

\* The channel's callback in worker_impl: the delivered command is handled.
WlHandleCommand ==
    /\ WorkerIdle /\ w_ch # <<>>
    /\ LET c == Recv(w_ch).msg IN
       /\ w_ch' = Recv(w_ch).rest
       /\ w_tree' = IF c.type = "UpdateTree" THEN update_tree(w_tree, c.a) ELSE w_tree
       /\ w_out' = IF c.type = "WriteUpdate" THEN write_update(w_out, c.a, c.b) ELSE w_out
       /\ w_exit' = IF c.type = "Exit" THEN TRUE ELSE w_exit
    /\ UNCHANGED <<hVars, dropVars, variant, env, app, worker, factory_thr, handler_calls, nupd,
                   sockVars, w_lock, w_inst, w_recv, w_acc, w_act>>

\* A faulty loop that breaks after a dispatch whatever the flag says.
WlLoopExit_Unchecked ==
    /\ WorkerIdle
    /\ worker' = "exited"
    /\ UNCHANGED <<hVars, dropVars, variant, env, app, factory_thr, handler_calls, nupd, sockVars,
                   wlVars>>

\* worker_impl's loop: `if state.exit { break; }` after a dispatch.
WlLoopExit ==
    /\ WorkerIdle /\ w_exit
    /\ worker' = "exited"
    /\ UNCHANGED <<hVars, dropVars, variant, env, app, factory_thr, handler_calls, nupd, sockVars,
                   wlVars>>

\* worker_impl's loop: event_loop.dispatch(..).unwrap() with dispatch failing
\* (the Wayland connection broke): the thread unwinds.
WlDispatchError ==
    /\ WorkerIdle
    /\ worker' = "panicked"
    /\ UNCHANGED <<hVars, dropVars, variant, env, app, factory_thr, handler_calls, nupd, sockVars,
                   wlVars>>

\* A faulty cell that runs its initializer on every force.
NeedsInit_Always(tree) == TRUE

\* Lazy::force runs the initializer only while the cell is empty.
NeedsInit(tree) == tree = Unforced

\* Receiver objects get their ids in order.
NextReceiver == CHOOSE r \in Receivers :
                    w_recv[r] = "absent" /\ \A q \in Receivers : q < r => w_recv[q] # "absent"

\* handle_new_update_receiver, first half: the lock is taken and the tree is
\* forced.  A tree source that panics unwinds the thread with the lock held.
WlNewReceiverForce(factory_ok) ==
    /\ WorkerIdle /\ env = "updates"
    /\ \E r \in Receivers : w_recv[r] = "absent"
    /\ LET r == NextReceiver IN
       /\ w_acc' = [w_acc EXCEPT ![r] = nupd]
       /\ IF NeedsInit(w_tree)
             THEN /\ factory_thr' = Append(factory_thr, "worker")
                  /\ IF factory_ok
                        THEN /\ w_tree' = TreeNew
                             /\ w_lock' = "worker"
                             /\ w_recv' = [w_recv EXCEPT ![r] = "wanted"]
                             /\ UNCHANGED worker
                        ELSE /\ worker' = "panicked"
                             /\ w_lock' = "poisoned"
                             /\ w_recv' = [w_recv EXCEPT ![r] = "failed"]
                             /\ UNCHANGED w_tree
             ELSE /\ factory_ok
                  /\ w_lock' = "worker"
                  /\ w_recv' = [w_recv EXCEPT ![r] = "wanted"]
                  /\ UNCHANGED <<factory_thr, w_tree, worker>>
    /\ UNCHANGED <<hVars, dropVars, variant, env, app, handler_calls, nupd, sockVars, w_ch,
                   w_exit, w_inst, w_out, w_act>>

\* A faulty second half that registers the receiver and keeps the lock.
WlNewReceiverRegister_KeepLock ==
    /\ variant = "wl" /\ worker = "running" /\ w_lock = "worker"
    /\ \E r \in Receivers :
       /\ w_recv[r] = "wanted"
       /\ w_out' = [w_out EXCEPT ![r] = <<Pipe(SerializeState(w_tree), "open")>>]
       /\ w_inst' = w_inst \cup {r}
       /\ w_recv' = [w_recv EXCEPT ![r] = "live"]
    /\ UNCHANGED <<hVars, dropVars, variant, env, app, worker, factory_thr, handler_calls, nupd,
                   sockVars, w_ch, w_exit, w_lock, w_tree, w_acc, w_act>>

\* handle_new_update_receiver, second half: the state is serialized and
\* written into a new pipe, the pipe is announced with receiver.send, the
\* receiver is put in the registry and the lock is released.
WlNewReceiverRegister ==
    /\ variant = "wl" /\ worker = "running" /\ w_lock = "worker"
    /\ \E r \in Receivers :
       /\ w_recv[r] = "wanted"
       /\ w_out' = [w_out EXCEPT ![r] = <<Pipe(SerializeState(w_tree), "open")>>]
       /\ w_inst' = w_inst \cup {r}
       /\ w_recv' = [w_recv EXCEPT ![r] = "live"]
    /\ w_lock' = "free"
    /\ UNCHANGED <<hVars, dropVars, variant, env, app, worker, factory_thr, handler_calls, nupd,
                   sockVars, w_ch, w_exit, w_tree, w_acc, w_act>>

\* Dispatch<WpA11yUpdatesV1>: UpdatesEvent::Unwanted removes the receiver.
WlUnwanted(r) ==
    /\ WorkerIdle /\ w_recv[r] = "live"
    /\ w_inst' = w_inst \ {r}
    /\ w_recv' = [w_recv EXCEPT ![r] = "gone"]
    /\ UNCHANGED <<hVars, dropVars, variant, env, app, worker, factory_thr, handler_calls, nupd,
                   sockVars, w_ch, w_exit, w_lock, w_tree, w_acc,
                   w_out, w_act>>

\* A faulty callback that writes from the start of the payload every time.
write_callback_Restart(pipe, n, err) ==
    IF err THEN [pipe EXCEPT !.st = "err"]
    ELSE LET w == pipe.written + n IN
         [pipe EXCEPT !.written = w,
                      !.out = @ \o SubSeq(Bytes(pipe.pl), 1, n),
                      !.st = IF w = SerLen(pipe.pl) THEN "done" ELSE "open"]

\* write_update's callback, run when the pipe is writable: the loop writes
\* until every byte is out (Remove), the pipe would block (Continue) or a
\* write fails (Remove).  n is what the pipe takes before it would block:
\* `file.write(&serialized[written..])` hands it the bytes from the first
\* unwritten one on.
write_callback(pipe, n, err) ==
    IF err THEN [pipe EXCEPT !.st = "err"]
    ELSE LET w == pipe.written + n IN
         [pipe EXCEPT !.written = w,
                      !.out = @ \o SubSeq(Bytes(pipe.pl), pipe.written + 1, w),
                      !.st = IF w = SerLen(pipe.pl) THEN "done" ELSE "open"]

\* A faulty event loop that drops every write source when one write fails.
dispatch_write_DropAll(out, r, i, n, err) ==
    IF err
       THEN [q \in Receivers |->
               [j \in DOMAIN out[q] |->
                   IF out[q][j].st = "open" THEN [out[q][j] EXCEPT !.st = "err"]
                                            ELSE out[q][j]]]
       ELSE [out EXCEPT ![r][i] = write_callback(@, n, err)]

\* The event loop runs the callback of the one source that is ready, and
\* PostAction::Remove removes that source only.
dispatch_write(out, r, i, n, err) == [out EXCEPT ![r][i] = write_callback(@, n, err)]

WlWritePipe(r, i, err) ==
    /\ WorkerIdle
    /\ i \in DOMAIN w_out[r] /\ w_out[r][i].st = "open"
    /\ \E n \in 1..(SerLen(w_out[r][i].pl) - w_out[r][i].written) :
          w_out' = dispatch_write(w_out, r, i, n, err)
    /\ UNCHANGED <<hVars, dropVars, variant, env, app, worker, factory_thr, handler_calls, nupd,
                   sockVars, w_ch, w_exit, w_lock, w_tree, w_inst,
                   w_recv, w_acc, w_act>>

----------------------------------------------------------------------------
\* The Wayland realization: action requests (state.rs).

\* Action requests get their numbers in order.
NextAction == CHOOSE a \in Actions :
                  w_act[a].st = "none" /\ \A b \in Actions : b < a => w_act[b].st # "none"

\* A client makes a pipe, means to write `bytes` into it and hands the read
\* end over in a SurfaceEvent::ActionRequest.
ClientActionRequest(bytes) ==
    /\ variant = "wl" /\ env = "actions" /\ worker = "running"
    /\ \E a \in Actions : w_act[a].st = "none"
    /\ w_act' = [w_act EXCEPT ![NextAction] =
                    [NoAct EXCEPT !.st = "event", !.sent = bytes, !.rest = bytes]]
    /\ UNCHANGED <<hVars, dropVars, variant, env, app, worker, factory_thr, handler_calls, nupd,
                   sockVars, w_ch, w_exit, w_lock, w_tree, w_inst,
                   w_recv, w_acc, w_out>>

\* The client writes the next n bytes of its request into the pipe.
ClientWrite(a, n) ==
    /\ variant = "wl" /\ w_act[a].st \in {"event", "reading"}
    /\ n \in 1..Len(w_act[a].rest)
    /\ w_act' = [w_act EXCEPT
                    ![a].avail = @ \o SubSeq(w_act[a].rest, 1, n),
                    ![a].rest = SubSeq(@, n + 1, Len(@))]
    /\ UNCHANGED <<hVars, dropVars, variant, env, app, worker, factory_thr, handler_calls, nupd,
                   sockVars, w_ch, w_exit, w_lock, w_tree, w_inst,
                   w_recv, w_acc, w_out>>

\* The client closes its end after the last byte.
ClientClose(a) ==
    /\ variant = "wl" /\ w_act[a].st \in {"event", "reading"}
    /\ w_act[a].rest = <<>> /\ ~w_act[a].closed
    /\ w_act' = [w_act EXCEPT ![a].closed = TRUE]
    /\ UNCHANGED <<hVars, dropVars, variant, env, app, worker, factory_thr, handler_calls, nupd,
                   sockVars, w_ch, w_exit, w_lock, w_tree, w_inst,
                   w_recv, w_acc, w_out>>

\* handle_action_request: the pipe becomes a read source with an empty
\* `content`.
WlActionRequest(a) ==
    /\ WorkerIdle /\ w_act[a].st = "event"
    /\ w_act' = [w_act EXCEPT ![a].st = "reading", ![a].content = <<>>]
    /\ UNCHANGED <<hVars, dropVars, variant, env, app, worker, factory_thr, handler_calls, nupd,
                   sockVars, w_ch, w_exit, w_lock, w_tree, w_inst,
                   w_recv, w_acc, w_out>>

\* A faulty accumulation that keeps only the bytes of the last read.
extend_from_slice_Overwrite(content, chunk) == chunk

\* content.extend_from_slice(&reader_buffer[..n])
extend_from_slice(content, chunk) == content \o chunk

\* The reads of one callback that yield Ok(n), n > 0: each takes what fits in
\* reader_buffer and extends `content` with it.
RECURSIVE read_loop(_, _)
read_loop(content, avail) ==
    IF avail = <<>> THEN content
    ELSE LET n == Min(Len(avail), ReaderBufLen) IN
         read_loop(extend_from_slice(content, SubSeq(avail, 1, n)),
                   SubSeq(avail, n + 1, Len(avail)))

\* A faulty callback that keeps its source registered whatever happened.
PostAction_Continue(st) == "reading"

\* `break PostAction::Remove`: the read source is removed from the event loop
\* and the request stays as it ended.
PostAction_Remove(st) == st

\* A faulty read that reports the end of the file whenever the pipe is empty.
ReadZero_OnEmpty(closed) == TRUE

\* file.read on the emptied pipe: Ok(0) if the writing end is closed,
\* WouldBlock otherwise.
ReadZero(closed) == closed

\* handle_action_request's callback, run when the pipe is readable: it reads
\* until the pipe would block (Continue), is at EOF (the content is decoded,
\* the handler is called with the request if it decodes, Remove) or a read
\* fails (Remove).
WlReadAction(a, err) ==
    /\ WorkerIdle /\ w_act[a].st = "reading"
    /\ err \/ w_act[a].avail # <<>> \/ w_act[a].closed
    /\ LET content == read_loop(w_act[a].content, w_act[a].avail) IN
       IF err
          THEN /\ w_act' = [w_act EXCEPT ![a].st = PostAction_Remove("failed")]
               /\ UNCHANGED handler_calls
          ELSE IF ReadZero(w_act[a].closed)
          THEN /\ w_act' = [w_act EXCEPT ![a].st = PostAction_Remove("eof"),
                                         ![a].avail = <<>>,
                                         ![a].content = content]
               /\ handler_calls' =
                     IF DecodeOk(content)
                        THEN Append(handler_calls,
                                    [req |-> Decode(content), thr |-> "worker", src |-> a])
                        ELSE handler_calls
          ELSE /\ w_act' = [w_act EXCEPT ![a].avail = <<>>, ![a].content = content]
               /\ UNCHANGED handler_calls
    /\ UNCHANGED <<hVars, dropVars, variant, env, app, worker, factory_thr, nupd, sockVars,
                   w_ch, w_exit, w_lock, w_tree, w_inst, w_recv, w_acc, w_out>>

----------------------------------------------------------------------------
Next ==
    \/ SockNew
    \/ SockAdapterThread
    \/ SockUpdate
    \/ SockUpdateFlushed
    \/ SockDropShutdown
    \/ SockDropJoin
    \/ \E spawned \in BOOLEAN : WlNew(spawned)
    \/ WlUpdateIfActive
    \/ WlDropExit
    \/ WlDropJoin
    \/ WlDropAgain
    \/ \E ok \in BOOLEAN : WlWorkerInit(ok)
    \/ WlHandleCommand
    \/ WlLoopExit
    \/ WlDispatchError
    \/ \E ok \in BOOLEAN : WlNewReceiverForce(ok)
    \/ WlNewReceiverRegister
    \/ \E r \in Receivers : WlUnwanted(r)
    \/ \E r \in Receivers, i \in 1..(MaxCalls + 1), err \in BOOLEAN : WlWritePipe(r, i, err)
    \/ \E bytes \in ActionBytes : ClientActionRequest(bytes)
    \/ \E a \in Actions, n \in 1..2 : ClientWrite(a, n)
    \/ \E a \in Actions : ClientClose(a)
    \/ \E a \in Actions : WlActionRequest(a)
    \/ \E a \in Actions, err \in BOOLEAN : WlReadAction(a, err)

Spec == Init /\ [][Next]_vars

\* The scheduling the worker's liveness rests on: the thread gets to run, the
\* event loop dispatches every source that stays ready, and a pipe that is
\* being read becomes writable again.
Fairness ==
    /\ WF_vars(\E ok \in BOOLEAN : WlWorkerInit(ok))
    /\ WF_vars(WlHandleCommand)
    /\ WF_vars(WlLoopExit)
    /\ WF_vars(WlNewReceiverRegister)
    /\ \A r \in Receivers, i \in 1..(MaxCalls + 1) :
          WF_vars(\E err \in BOOLEAN : WlWritePipe(r, i, err))

FairSpec == Spec /\ Fairness

----------------------------------------------------------------------------
\* The handlers on their own: the socket worker's handle_tree_updates and the
\* Wayland worker's channel callback, started in the states in which they are
\* entered, with their inputs drawn from bounded sets.

\* The largest number of messages waiting in a channel when a handler starts.
HMaxQueued == 3

\* A faulty loop that sends to the first sender of the list only.
Broadcast_First(txs, serialized) ==
    [r \in Receivers |->
        IF txs[r].live /\ \A q \in Receivers : (q < r) => ~txs[q].live
           THEN [txs[r] EXCEPT !.q = Append(@, serialized)]
           ELSE txs[r]]

\* handle_tree_updates: `for tx in tree_update_txs.borrow().iter()
\* { tx.unbounded_send(Rc::clone(&serialized)).unwrap(); }`
Broadcast(txs, serialized) ==
    [r \in Receivers |->
        IF txs[r].live THEN [txs[r] EXCEPT !.q = Append(@, serialized)] ELSE txs[r]]

\* unbounded_send returns Err on a sender whose receiver was dropped.
SendFails(txs, r) == txs[r].live /\ txs[r].rx # "live"

\* handle_tree_updates, one iteration: the update taken from the channel is
\* serialized, then applied to the tree, and the serialized update is sent to
\* every session's sender.  The `.unwrap()` of a failed send unwinds the
\* thread, the senders earlier in the list having been sent to.
SockHandleTreeUpdate ==
    /\ variant = "sock" /\ worker = "running" /\ s_poll = "updates" /\ s_upd_ch # <<>>
    /\ LET update == Head(s_upd_ch)
           serialized == SerializeUpdate(update)
       IN /\ s_upd_ch' = Tail(s_upd_ch)
          /\ s_tree' = TreeUpdate(s_tree, update)
          /\ IF \E r \in Receivers : SendFails(s_txs, r)
                THEN /\ worker' = "panicked"
                     /\ s_txs' = [r \in Receivers |->
                                    IF \E q \in Receivers : q <= r /\ SendFails(s_txs, q)
                                       THEN s_txs[r]
                                       ELSE Broadcast(s_txs, serialized)[r]]
                ELSE /\ worker' = worker
                     /\ s_txs' = Broadcast(s_txs, serialized)
    /\ UNCHANGED <<libVars, w_closed, s_poll, s_act, dropVars, variant, env, app, factory_thr,
                   handler_calls, nupd, s_shutdown, wlVars>>

\* A faulty end of tree_stream_task that leaves the sender in the list.
remove_tx_Keep(txs, r) == [txs EXCEPT ![r].rx = "dropped", ![r].q = <<>>]

\* tree_stream_task after `await_disconnect.or(send_updates).await`: the
\* receiver, owned by send_updates, is dropped with the finished `or`, and
\* the loop over tree_update_txs removes the sender that has the same
\* receiver; no await lies in between.
remove_tx(txs, r) == [txs EXCEPT ![r] = [live |-> FALSE, rx |-> "dropped", q |-> <<>>]]

\* tree_stream_task's end: the client closed its end of the stream, or a
\* write to it failed, and the task runs to its end in one poll, which the
\* executor makes between two polls of `main`.
SockSessionEnd(r) ==
    /\ variant = "sock" /\ worker = "running" /\ s_poll = "actions"
    /\ s_txs[r].live /\ s_txs[r].rx = "live"
    /\ s_txs' = remove_tx(s_txs, r)
    /\ UNCHANGED <<libVars, w_closed, s_poll, s_act, dropVars, variant, env, app, worker, factory_thr,
                   handler_calls, nupd, sockVars, wlVars>>

\* handle_tree_updates: tree_update_rx.next() finds the channel empty and the
\* future is pending; the poll of `main` ends, and the next one starts with
\* the handlers to the left.
SockUpdatesPending ==
    /\ variant = "sock" /\ worker = "running" /\ s_poll = "updates" /\ s_upd_ch = <<>>
    /\ s_poll' = "actions"
    /\ UNCHANGED <<libVars, w_closed, s_txs, s_act, dropVars, variant, env, app, worker, factory_thr,
                   handler_calls, nupd, sockVars, wlVars>>

\* A client sends a datagram to the action socket.  At most MaxActions
\* well-formed requests are sent.
ClientDatagram(bytes) ==
    /\ variant = "sock" /\ worker = "running" /\ s_act.st = "empty"
    /\ DecodeOk(bytes) => Len(handler_calls) < MaxActions
    /\ s_act' = [s_act EXCEPT !.st = "ready", !.bytes = bytes]
    /\ UNCHANGED <<libVars, w_closed, s_txs, s_poll, dropVars, variant, env, app, worker, factory_thr,
                   handler_calls, nupd, sockVars, wlVars>>

\* The action socket gets into a condition in which recv fails with an error
\* other than WouldBlock, and stays in it.
SockRecvFails ==
    /\ variant = "sock" /\ worker = "running" /\ s_act.st = "empty"
    /\ s_act' = [s_act EXCEPT !.st = "error"]
    /\ UNCHANGED <<libVars, w_closed, s_txs, s_poll, dropVars, variant, env, app, worker, factory_thr,
                   handler_calls, nupd, sockVars, wlVars>>

\* handle_actions, one iteration with recv yielding at once.  On Ok(n) the
\* datagram is decoded and the handler is called if it decodes; on Err the
\* `if let Ok(n)` does not match and nothing is done.  Either way the loop
\* goes on to the next recv without the future having been pending.
SockHandleAction ==
    /\ variant = "sock" /\ worker = "running" /\ s_poll = "actions"
    /\ s_act.st \in {"ready", "error"}
    /\ IF s_act.st = "ready"
          THEN /\ handler_calls' =
                     IF DecodeOk(s_act.bytes)
                        THEN Append(handler_calls,
                                    [req |-> Decode(s_act.bytes), thr |-> "worker", src |-> 0])
                        ELSE handler_calls
               /\ s_act' = [s_act EXCEPT !.st = "empty", !.bytes = <<>>]
          ELSE /\ s_act' = [s_act EXCEPT !.tries = 1 - @]
               /\ UNCHANGED handler_calls
    /\ UNCHANGED <<libVars, w_closed, s_txs, s_poll, dropVars, variant, env, app, worker, factory_thr,
                   nupd, sockVars, wlVars>>

\* handle_actions: recv finds nothing to receive (WouldBlock) and the future
\* is pending; `or` then polls the handler to its right.
SockActionsPending ==
    /\ variant = "sock" /\ worker = "running" /\ s_poll = "actions" /\ s_act.st = "empty"
    /\ s_poll' = "updates"
    /\ UNCHANGED <<libVars, w_closed, s_txs, s_act, dropVars, variant, env, app, worker, factory_thr,
                   handler_calls, nupd, sockVars, wlVars>>

\* The channel's callback in worker_impl on `channel::Event::Closed`, which
\* the source delivers when every sender is gone and the channel is drained:
\* the `if let channel::Event::Msg(event)` does not match and nothing is done.
WlChannelClosed ==
    /\ WorkerIdle /\ w_ch = <<>> /\ w_closed = "dropped"
    /\ w_closed' = "seen"
    /\ UNCHANGED <<libVars, s_txs, s_poll, s_act, dropVars, variant, env, app, worker, factory_thr,
                   handler_calls, nupd, sockVars, wlVars>>

\* The socket worker inside handle_tree_updates: k updates were applied, n
\* more wait in the channel, and each session is absent, has an empty queue
\* or still holds the payload of the last applied update.
HandlerInitSock ==
    /\ variant = "sock" /\ env = "updates" /\ app = "live" /\ worker = "running"
    /\ factory_thr = <<"app">>
    /\ \E k \in 0..1, n \in 1..HMaxQueued :
          /\ s_tree = ApplyFirst(k)
          /\ s_upd_ch = [j \in 1..n |-> k + j]
          /\ nupd = k + n
          /\ s_txs \in [Receivers ->
                          {NoTx, [live |-> TRUE, rx |-> "live", q |-> <<>>]} \cup
                          {[live |-> TRUE, rx |-> "live", q |-> <<SerializeUpdate(j)>>] :
                               j \in k..k \ {0}}]
    /\ s_shutdown = FALSE
    /\ w_ch = <<>> /\ w_exit = FALSE /\ w_tree = Unforced /\ w_closed = "no"
    /\ drops = 0 /\ n_shut = 0

\* The Wayland worker in its loop: n UpdateTree commands wait in the channel,
\* an Exit may follow them, and the sending side may be gone.
HandlerInitWl ==
    /\ variant = "wl" /\ env = "updates" /\ worker = "running"
    /\ factory_thr = <<>>
    /\ \E n \in 0..HMaxQueued, exit \in BOOLEAN :
          /\ w_ch = [j \in 1..n |-> Cmd("UpdateTree", j, 0)]
                        \o (IF exit THEN <<Cmd("Exit", 0, 0)>> ELSE <<>>)
          /\ nupd = n
          /\ w_tree \in (IF n = 0 THEN {Unforced, TreeNew} ELSE {TreeNew})
          /\ app = IF exit THEN "dropped" ELSE "live"
          /\ drops = (IF exit THEN 1 ELSE 0)
          /\ n_shut = drops
    /\ w_closed \in {"no", "dropped"}
    /\ w_exit = FALSE
    /\ s_upd_ch = <<>> /\ s_tree = Unforced /\ s_shutdown = FALSE
    /\ s_txs = [r \in Receivers |-> NoTx]

HandlerInit ==
    /\ HandlerInitSock \/ HandlerInitWl
    /\ LibIdle
    /\ s_poll = "actions"
    /\ s_act = NoDatagram
    /\ handler_calls = <<>>
    /\ w_lock = "free"
    /\ w_inst = {}
    /\ w_recv = [r \in Receivers |-> "absent"]
    /\ w_acc = [r \in Receivers |-> 0]
    /\ w_out = [r \in Receivers |-> <<>>]
    /\ w_act = [a \in Actions |-> NoAct]
    /\ n_join = 0

HandlerNext ==
    \/ SockHandleTreeUpdate
    \/ SockUpdatesPending
    \/ \E r \in Receivers : SockSessionEnd(r)
    \/ \E bytes \in ActionBytes : ClientDatagram(bytes)
    \/ SockRecvFails
    \/ SockHandleAction
    \/ SockActionsPending
    \/ WlHandleCommand
    \/ WlChannelClosed
    \/ WlLoopExit

HandlerSpec == HandlerInit /\ [][HandlerNext]_vars

\* The scheduling the handlers' liveness rests on: the worker thread runs,
\* so a poll that can go on does.
HandlerFairness ==
    /\ WF_vars(SockHandleTreeUpdate)
    /\ WF_vars(SockUpdatesPending)
    /\ WF_vars(SockHandleAction)
    /\ WF_vars(SockActionsPending)
    /\ WF_vars(WlHandleCommand)
    /\ WF_vars(WlChannelClosed)
    /\ WF_vars(WlLoopExit)

HandlerFairSpec == HandlerSpec /\ HandlerFairness

----------------------------------------------------------------------------
\* The android platform crate (platforms/android/rust) and the consumer
\* crate's Node, each entered on its own with its inputs drawn from bounded
\* sets; `variant` says which of them a behaviour exercises:
\*   "jni_init"   the two definitions of Adapter_initialize (lib.rs, adapter.rs);
\*   "do_action"  PlatformNode::do_action on a Context made by Adapter::new;
\*   "consumer"   Node::unignored_parent on a tree.

\* Bounds of these models.
MaxInit == 3
MaxNode == 3
MaxDoActions == 2
CMaxNode == 4

unixVars == <<variant, env, app, worker, factory_thr, handler_calls, nupd, sockVars, wlVars,
              w_closed, s_txs, s_poll, s_act, dropVars>>

\* lib.rs, Adapter_initialize.  `fail` is the JNI lookup that fails: 1
\* find_class, 2 new_global_ref, 3 get_method_id, 4 get_field_id, 0 none.
\* A cache that is already filled makes the call return JNI_FALSE.  A cache
\* value is the number of the call that filled it, 0 for None.
LibInitialize(fail) ==
    /\ variant = "jni_init" /\ Len(init_rets) < MaxInit
    /\ LET call == Len(init_rets) + 1
           ret == JNI_CACHE = 0 /\ fail = 0
       IN /\ JNI_CACHE' = IF ret THEN call ELSE JNI_CACHE
          /\ init_rets' = Append(init_rets, [impl |-> "lib", before |-> JNI_CACHE,
                                             after |-> JNI_CACHE', ret |-> ret])
    /\ UNCHANGED <<unixVars, CLASS_CACHE, nodeVars, consVars>>

\* ClassCache::new: both classes must initialize (`?` on each).
ClassCache_new(delegate_ok, node_info_ok) == delegate_ok /\ node_info_ok

\* adapter.rs, Adapter_initialize: a cache that is already filled makes the
\* call return JNI_TRUE; otherwise ClassCache::new decides.
AdapterInitialize(delegate_ok, node_info_ok) ==
    /\ variant = "jni_init" /\ Len(init_rets) < MaxInit
    /\ LET call == Len(init_rets) + 1
           fill == CLASS_CACHE = 0 /\ ClassCache_new(delegate_ok, node_info_ok)
       IN /\ CLASS_CACHE' = IF fill THEN call ELSE CLASS_CACHE
          /\ init_rets' = Append(init_rets, [impl |-> "adapter", before |-> CLASS_CACHE,
                                             after |-> CLASS_CACHE',
                                             ret |-> (CLASS_CACHE # 0 \/ fill)])
    /\ UNCHANGED <<unixVars, JNI_CACHE, nodeVars, consVars>>

\* Node ids of the android tree; a PlatformNodeId is 0 for Root and n for
\* Resolved(n).
NodeIds == 1..MaxNode
PlatformNodeIds == {0} \cup NodeIds

\* PlatformNodeId::resolve.
resolve(pn, tree) == IF pn = 0 THEN tree.root ELSE pn

\* A faulty upgrade that hands out a context that is gone.
upgrade_Always(ctx) == TRUE

\* util::upgrade: Weak::upgrade yields the context while an Arc to it exists.
upgrade(ctx) == ctx.adapter \/ ctx.held

\* do_action, `let context = self.upgrade_context()?; let tree =
\* context.read_tree();`: on Err the call returns node_not_found.
DoActionUpgrade(pn) ==
    /\ variant = "do_action" /\ a_node.pc = "idle" /\ Len(a_rets) < MaxDoActions
    /\ IF upgrade(a_ctx)
          THEN /\ a_node' = [pc |-> "locked", pn |-> pn, id |-> 0, guard |-> TRUE,
                             alive |-> a_ctx.adapter]
               /\ a_ctx' = [a_ctx EXCEPT !.held = TRUE]
               /\ UNCHANGED a_rets
          ELSE /\ a_rets' = Append(a_rets, [pn |-> pn, ret |-> "not_found",
                                           alive |-> a_ctx.adapter])
               /\ UNCHANGED <<a_node, a_ctx>>
    /\ UNCHANGED <<unixVars, initVars, a_tree, a_calls, consVars>>

\* do_action, the id is resolved and looked up under the read lock; if the
\* node is there the guard is dropped, else the call returns node_not_found
\* (and the guard and the Arc go with the frame).
DoActionCheck ==
    /\ variant = "do_action" /\ a_node.pc = "locked"
    /\ LET node_id == resolve(a_node.pn, a_tree) IN
       IF node_id \in a_tree.nodes
          THEN /\ a_node' = [a_node EXCEPT !.pc = "call", !.id = node_id, !.guard = FALSE]
               /\ UNCHANGED <<a_rets, a_ctx>>
          ELSE /\ a_rets' = Append(a_rets, [pn |-> a_node.pn, ret |-> "not_found",
                                           alive |-> a_node.alive])
               /\ a_node' = NoFrame
               /\ a_ctx' = [a_ctx EXCEPT !.held = FALSE]
    /\ UNCHANGED <<unixVars, initVars, a_tree, a_calls, consVars>>

\* do_action, `let request = f(node_id);
\* context.action_handler.do_action(request); Ok(())`, with the f of
\* do_default_action.
DoActionCall ==
    /\ variant = "do_action" /\ a_node.pc = "call"
    /\ a_calls' = Append(a_calls, [req |-> [action |-> "Default", target |-> a_node.id],
                                   pn |-> a_node.pn, guard |-> a_node.guard,
                                   alive |-> a_node.alive])
    /\ a_rets' = Append(a_rets, [pn |-> a_node.pn, ret |-> "ok", alive |-> a_node.alive])
    /\ a_node' = NoFrame
    /\ a_ctx' = [a_ctx EXCEPT !.held = FALSE]
    /\ UNCHANGED <<unixVars, initVars, a_tree, consVars>>

\* The Adapter is dropped on another thread, and its Arc<Context> with it.
AdapterDrop ==
    /\ variant = "do_action" /\ a_ctx.adapter
    /\ a_ctx' = [a_ctx EXCEPT !.adapter = FALSE]
    /\ UNCHANGED <<unixVars, initVars, a_tree, a_node, a_calls, a_rets, consVars>>

\* Node ids of the consumer tree; 0 stands for None.
CNodes == 1..CMaxNode
Roles == {"Presentation", "Button"}

\* A faulty is_ignored that looks at the flag only.
is_ignored_FlagOnly(t, n) == t.ignored[n]

\* Node::is_ignored.
is_ignored(t, n) == t.ignored[n] \/ t.role[n] = "Presentation"

\* Node::parent.
parent(t, n) == t.parent[n]

\* Node::unignored_parent.
RECURSIVE unignored_parent(_, _)
unignored_parent(t, n) ==
    IF parent(t, n) # 0
       THEN IF is_ignored(t, parent(t, n))
               THEN IF unignored_parent(t, parent(t, n)) # 0
                       THEN unignored_parent(t, parent(t, n))
                       ELSE 0
               ELSE parent(t, n)
       ELSE 0

\* unignored_parent is called on node n of the tree.
UnignoredParentCall(n) ==
    /\ variant = "consumer" /\ c_query.node # n
    /\ c_query' = [node |-> n, res |-> unignored_parent(c_tree, n)]
    /\ UNCHANGED <<unixVars, initVars, nodeVars, c_tree>>

\* Nothing has been initialized: both caches hold None.
LibInitJni ==
    /\ variant = "jni_init"
    /\ a_tree = [nodes |-> {}, root |-> 0]
    /\ a_ctx = [adapter |-> FALSE, held |-> FALSE]
    /\ c_tree = [parent |-> <<>>, ignored |-> <<>>, role |-> <<>>]

\* After Adapter::new: the Adapter holds the only Arc<Context>, and the tree
\* has some nodes, its root among them.
LibInitNode ==
    /\ variant = "do_action"
    /\ a_tree \in {[nodes |-> S, root |-> r] : S \in SUBSET NodeIds, r \in NodeIds}
    /\ a_tree.root \in a_tree.nodes
    /\ a_ctx = [adapter |-> TRUE, held |-> FALSE]
    /\ c_tree = [parent |-> <<>>, ignored |-> <<>>, role |-> <<>>]

\* A tree of the consumer crate: node 1 is the root, every other node has a
\* parent with a smaller id; flags and roles are arbitrary.
LibInitConsumer ==
    /\ variant = "consumer"
    /\ a_tree = [nodes |-> {}, root |-> 0]
    /\ a_ctx = [adapter |-> FALSE, held |-> FALSE]
    /\ \E par \in [CNodes -> 0..(CMaxNode - 1)],
          ign \in [CNodes -> BOOLEAN], rol \in [CNodes -> Roles] :
          /\ \A n \in CNodes : IF n = 1 THEN par[n] = 0 ELSE par[n] \in 1..(n - 1)
          /\ c_tree = [parent |-> par, ignored |-> ign, role |-> rol]

LibInit ==
    /\ LibInitJni \/ LibInitNode \/ LibInitConsumer
    /\ JNI_CACHE = 0 /\ CLASS_CACHE = 0 /\ init_rets = <<>>
    /\ a_node = NoFrame /\ a_calls = <<>> /\ a_rets = <<>>
    /\ c_query = [node |-> 0, res |-> 0]
    /\ env = "updates" /\ app = "unborn" /\ worker = "none"
    /\ factory_thr = <<>> /\ handler_calls = <<>> /\ nupd = 0
    /\ s_upd_ch = <<>> /\ s_tree = Unforced /\ s_shutdown = FALSE
    /\ w_ch = <<>> /\ w_exit = FALSE /\ w_lock = "free" /\ w_tree = Unforced
    /\ w_inst = {}
    /\ w_recv = [r \in Receivers |-> "absent"]
    /\ w_acc = [r \in Receivers |-> 0]
    /\ w_out = [r \in Receivers |-> <<>>]
    /\ w_act = [a \in Actions |-> NoAct]
    /\ w_closed = "no"
    /\ s_txs = [r \in Receivers |-> NoTx]
    /\ s_poll = "actions" /\ s_act = NoDatagram
    /\ drops = 0 /\ n_shut = 0 /\ n_join = 0

LibNext ==
    \/ \E fail \in 0..4 : LibInitialize(fail)
    \/ \E delegate_ok, node_info_ok \in BOOLEAN : AdapterInitialize(delegate_ok, node_info_ok)
    \/ \E pn \in PlatformNodeIds : DoActionUpgrade(pn)
    \/ DoActionCheck
    \/ DoActionCall
    \/ AdapterDrop
    \/ \E n \in CNodes : UnignoredParentCall(n)

LibSpec == LibInit /\ [][LibNext]_vars

----------------------------------------------------------------------------
\* Properties.

\* The updates announced to receiver r after its snapshot, in order.
UpdatesSent(r) == [k \in 1..(Len(w_out[r]) - 1) |-> w_out[r][k + 1].pl.val[1]]

\* The updates of the UpdateTree commands still in the channel, in order.
RECURSIVE PendingUpdates(_)
PendingUpdates(ch) ==
    IF ch = <<>> THEN <<>>
    ELSE IF Head(ch).type = "UpdateTree"
            THEN <<Head(ch).a>> \o PendingUpdates(Tail(ch))
            ELSE PendingUpdates(Tail(ch))

\* The invocations of the action handler that action request a led to.
CallsFor(a) == {k \in DOMAIN handler_calls : handler_calls[k].src = a}

\* C1 (snapshot on connect): the first payload announced to a receiver is the
\* serialized state of the tree made by the tree source with every update the
\* application produced before the receiver was accepted applied to it, in
\* order.
C1_SnapshotOnConnect ==
    \A r \in Receivers :
        w_out[r] # <<>> => w_out[r][1].pl = SerializeState(ApplyFirst(w_acc[r]))

\* C2 (ordering): for every registered receiver the payloads after its
\* snapshot are the updates applied to the tree since the snapshot's state,
\* one for one and in order: the snapshot's state followed by the receiver's
\* updates is the tree followed by the updates still to be applied.
C2_Ordering ==
    \A r \in w_inst :
        /\ w_out[r][1].pl.kind = "state"
        /\ \A k \in 2..Len(w_out[r]) : w_out[r][k].pl.kind = "update"
        /\ w_out[r][1].pl.val \o UpdatesSent(r) = w_tree \o PendingUpdates(w_ch)

\* The i-th payload announced to receiver r exists and is in one of the states sts.
PipeIs(r, i, sts) == i \in DOMAIN w_out[r] /\ w_out[r][i].st \in sts

C5_ShutdownDeterminism ==
    /\ app # "panic_drop"
    /\ app = "dropped" => WorkerGone

\* C6 (action relay): an action request leads to at most one invocation of
\* the action handler, only if it is well formed and with the request that
\* was sent; a well-formed request read to its end has led to exactly one.
C6_ActionRelay ==
    \A a \in Actions :
        /\ Cardinality(CallsFor(a)) <= 1
        /\ \A k \in CallsFor(a) : Encode(handler_calls[k].req) = w_act[a].sent
        /\ (w_act[a].st = "eof" /\ DecodeOk(w_act[a].sent))
               => Cardinality(CallsFor(a)) = 1

\* C6 witness: a well-formed request was read to its end and relayed.
C6_Witness ==
    \E a \in Actions :
        /\ w_act[a].st = "eof" /\ DecodeOk(w_act[a].sent)
        /\ CallsFor(a) # {}

\* C7 (disconnect cleanup): once a receiver has signalled that it wants no
\* more updates it is not in the registry, and from then on no update is
\* announced to it, armed for writing or written for it.
C7_DisconnectCleanup ==
    /\ [](\A r \in Receivers : w_recv[r] = "gone" => r \notin w_inst)
    /\ [][\A r \in Receivers : w_recv[r] = "gone" =>
              /\ Len(w_out'[r]) = Len(w_out[r])
              /\ \A i \in DOMAIN w_out[r] :
                    w_out[r][i].pl.kind = "update" => w_out'[r][i] = w_out[r][i]]_vars

\* C8 (callbacks on the worker): the tree source and the action handler are
\* invoked on the worker thread only.
C8_CallbacksOnWorker ==
    /\ \A k \in DOMAIN factory_thr : factory_thr[k] = "worker"
    /\ \A k \in DOMAIN handler_calls : handler_calls[k].thr = "worker"

C10_UpdateNeverFails == app \notin {"panic_update", "panic_uia"}

\* C11 (teardown is safe after the worker's end and when repeated): over any
\* number of teardowns at most one shutdown signal is handed over and the
\* thread is joined at most once, and a teardown step taken when the worker
\* thread has already ended does not fail.
C11_TeardownSafe ==
    /\ [](n_shut <= 1 /\ n_join <= 1)
    /\ [][(WorkerGone /\ app # "panic_drop") => app' # "panic_drop"]_vars

\* The elements of a sequence.
Range(seq) == {seq[k] : k \in DOMAIN seq}

\* C12 (no receiver is left stale): while the worker runs, every update that
\* update_if_active has produced is reflected for every registered receiver,
\* in its snapshot or in one of the payloads announced to it afterwards,
\* also when the receiver was accepted around the time of the call.
C12_NoStaleReceiver ==
    worker = "running" =>
        \A r \in w_inst, u \in 1..nupd :
            u \in Range(w_out[r][1].pl.val) \cup Range(UpdatesSent(r))

\* C13 (update_if_active acts exactly if the tree is initialized): a call
\* made while the tree has been forced invokes the provided function, and a
\* call made while it has not been forced does not.
C13_ActiveIffForced ==
    /\ [][(WlUpdateIfActive /\ w_lock = "free" /\ w_tree # Unforced) =>
              nupd' = nupd + 1]_vars
    /\ [][(WlUpdateIfActive /\ w_tree = Unforced) => nupd' = nupd]_vars

\* The commands a step appended to the channel.
Sent == SubSeq(w_ch', Len(w_ch) + 1, Len(w_ch'))

\* C14 (one call, one fan-out): an update_if_active call that finds the
\* registry non-empty invokes the factory exactly once; while the worker's
\* receiving end exists it appends to the channel exactly one UpdateTree
\* carrying that update, followed by exactly one WriteUpdate per registered
\* receiver and nothing else, and announces to each registered receiver, and
\* to no other, exactly one new pipe carrying the serialization of that update.
C14_OneFanOut ==
    [][(WlUpdateIfActive /\ w_lock = "free" /\ w_inst # {}) =>
          /\ nupd' = nupd + 1
          /\ WorkerAlive =>
                /\ SubSeq(w_ch', 1, Len(w_ch)) = w_ch
                /\ Len(Sent) = 1 + Cardinality(w_inst)
                /\ Sent[1] = Cmd("UpdateTree", nupd', 0)
                /\ \A r \in w_inst :
                      /\ Cardinality({k \in 2..Len(Sent) :
                                         Sent[k].type = "WriteUpdate" /\ Sent[k].a = r}) = 1
                      /\ Len(w_out'[r]) = Len(w_out[r]) + 1
                      /\ SubSeq(w_out'[r], 1, Len(w_out[r])) = w_out[r]
                      /\ w_out'[r][Len(w_out'[r])].pl = SerializeUpdate(nupd')
                      /\ \E k \in 2..Len(Sent) :
                            Sent[k] = Cmd("WriteUpdate", r, Len(w_out'[r]))
                /\ \A r \in Receivers \ w_inst : w_out'[r] = w_out[r]]_vars

\* C14 witness: the channel holds the commands of one call made with two
\* registered receivers: its UpdateTree, then one WriteUpdate for each.
C14_Witness ==
    /\ nupd = 1 /\ Len(w_ch) = 3
    /\ w_ch[1] = Cmd("UpdateTree", 1, 0)
    /\ {w_ch[2].type, w_ch[3].type} = {"WriteUpdate"}
    /\ {w_ch[2].a, w_ch[3].a} = w_inst
    /\ Cardinality(w_inst) = 2

\* C15 (send order): the worker handles the commands in the order they were
\* sent.  Once the WriteUpdate of a pipe has been handled, the UpdateTree of
\* the same call, sent before it, is no longer waiting in the channel and has
\* been applied to the tree; and once an Exit has been handled, no command
\* sent before it (an UpdateTree or a WriteUpdate) is still waiting.
C15_SendOrder ==
    /\ \A r \in Receivers : \A i \in DOMAIN w_out[r] :
          (w_out[r][i].pl.kind = "update" /\ w_out[r][i].st # "cmd") =>
              /\ \A k \in DOMAIN w_ch :
                    w_ch[k] # Cmd("UpdateTree", w_out[r][i].pl.val[1], 0)
              /\ w_out[r][i].pl.val[1] \in Range(w_tree)
    /\ w_exit => \A k \in DOMAIN w_ch : w_ch[k].type = "Exit"

\* C15 witness: the WriteUpdate of an update pipe has been handled, and so
\* has an Exit that was sent after it.
C15_Witness ==
    /\ w_exit
    /\ \E r \in Receivers : \E i \in DOMAIN w_out[r] :
          w_out[r][i].pl.kind = "update" /\ w_out[r][i].st # "cmd"

C17_CheckNeverWaits ==
    (variant = "wl" /\ app \in {"live", "skipped"}) => w_lock # "worker"

C22_RegistryBijection ==
    /\ w_inst = {r \in Receivers : w_recv[r] = "live"}
    /\ \A r \in Receivers :
          (\E i \in DOMAIN w_out[r] : w_out[r][i].st = "err") => r \notin w_inst

\* Some pipe of some receiver has failed.
SomePipeFailed == \E r \in Receivers : \E i \in DOMAIN w_out[r] : w_out[r][i].st = "err"

\* C23 (a transport error is local): the step in which a write to a pipe
\* fails leaves the worker running and changes nothing but that pipe; after
\* it, an update_if_active call still announces the update to every
\* registered receiver, and a new receiver can still be accepted.
C23_ErrorIsLocal ==
    /\ [][\A r \in Receivers : \A i \in DOMAIN w_out[r] :
             (w_out[r][i].st = "open" /\ i \in DOMAIN w_out'[r] /\ w_out'[r][i].st = "err") =>
                 /\ worker' = "running"
                 /\ <<w_inst, w_tree, w_ch, w_exit, w_lock, w_recv>>' =
                       <<w_inst, w_tree, w_ch, w_exit, w_lock, w_recv>>
                 /\ \A q \in Receivers : \A j \in DOMAIN w_out[q] :
                       <<q, j>> # <<r, i>> => (j \in DOMAIN w_out'[q] /\ w_out'[q][j] = w_out[q][j])]_vars
    /\ [][(SomePipeFailed /\ WlUpdateIfActive /\ w_inst # {} /\ worker = "running") =>
             \A q \in w_inst :
                 /\ Len(w_out'[q]) = Len(w_out[q]) + 1
                 /\ w_out'[q][Len(w_out'[q])].pl = SerializeUpdate(nupd')]_vars
    /\ []((SomePipeFailed /\ WorkerIdle /\ env = "updates"
              /\ \E r \in Receivers : w_recv[r] = "absent")
            => ENABLED WlNewReceiverForce(TRUE))

\* C23 witness: the snapshot pipe of one receiver has failed, the worker is
\* running, and another receiver, accepted later, has been written a whole
\* update.
C23_Witness ==
    /\ worker = "running"
    /\ \E r, q \in Receivers :
          /\ r < q
          /\ w_out[r] # <<>> /\ w_out[r][1].st = "err"
          /\ \E j \in DOMAIN w_out[q] :
                w_out[q][j].pl.kind = "update" /\ w_out[q][j].st = "done"

\* The bytes are the encoding of a request.
WellFormed(bytes) == \E q \in Requests : bytes = <<q, 0>>

AppStep ==
    \/ SockNew \/ SockUpdate \/ SockUpdateFlushed \/ SockDropShutdown \/ SockDropJoin
    \/ \E spawned \in BOOLEAN : WlNew(spawned)
    \/ WlUpdateIfActive \/ WlDropExit \/ WlDropJoin \/ WlDropAgain

\* C25 (the worker is the sole mutator): no step of the application thread
\* adds or removes a registry entry, forces or changes the worker's tree, or
\* changes a tree that has been built.
C25_AppOnlyReads ==
    [][AppStep =>
          /\ w_inst' = w_inst
          /\ w_tree' = w_tree
          /\ s_tree # Unforced => s_tree' = s_tree]_vars

\* C25 witness: with a receiver registered and the tree forced, the
\* application has made an update_if_active call that produced an update and
\* has torn the adapter down; the registry and the tree are still there.
C25_Witness ==
    /\ app = "dropped" /\ nupd = 1
    /\ w_inst # {} /\ w_tree # Unforced

\* C26 (decode at EOF only): while a request is being read, the accumulated
\* content is exactly the bytes read so far, in arrival order, and the action
\* handler has not been invoked for it; the content is decoded only when the
\* client has closed the pipe, and then it is everything the client sent.
C26_DecodeAtEof ==
    \A a \in Actions :
        /\ w_act[a].st = "reading" =>
              /\ CallsFor(a) = {}
              /\ w_act[a].content \o w_act[a].avail \o w_act[a].rest = w_act[a].sent
        /\ w_act[a].st = "eof" =>
              /\ w_act[a].closed
              /\ w_act[a].content = w_act[a].sent
        /\ CallsFor(a) # {} => w_act[a].st = "eof"

\* C26 witness: the first part of a well-formed request has been read and is
\* kept in the content across a would-block, the client not having closed.
C26_Witness ==
    \E a \in Actions :
        /\ w_act[a].st = "reading" /\ w_act[a].content # <<>> /\ ~w_act[a].closed
        /\ WellFormed(w_act[a].sent) /\ w_act[a].content # w_act[a].sent

\* C27 (single shot): once a request has been read to the end of the file,
\* whether it decoded or not, or a read of it has failed, nothing about it
\* changes any more and no invocation is added for it; no request ever leads
\* to more than one invocation of the action handler.
C27_SingleShot ==
    /\ [](\A a \in Actions : Cardinality(CallsFor(a)) <= 1)
    /\ [][\A a \in Actions :
             w_act[a].st \in {"eof", "failed"} =>
                 /\ w_act'[a] = w_act[a]
                 /\ {k \in DOMAIN handler_calls' : handler_calls'[k].src = a} = CallsFor(a)]_vars

\* C27 witness: one request ended in a read error and another one was
\* relayed at the end of the file.
C27_Witness ==
    \E a, b \in Actions :
        /\ w_act[a].st = "failed"
        /\ w_act[b].st = "eof" /\ CallsFor(b) # {}

\* C28 (one session per acceptance): every receiver whose UpdatesWanted
\* event the worker has handled got exactly one session: it was given one
\* snapshot pipe and one registry entry, which only its own Unwanted removes.
C28_OneSessionPerAcceptance ==
    \A r \in Receivers :
        /\ w_recv[r] \in {"absent", "wanted", "live", "gone"}
        /\ w_recv[r] \in {"live", "gone"} =>
              /\ w_out[r] # <<>> /\ w_out[r][1].pl.kind = "state"
              /\ \A i \in DOMAIN w_out[r] : i > 1 => w_out[r][i].pl.kind = "update"
        /\ w_recv[r] = "live" <=> r \in w_inst

\* C29 (tree-source failure is local): the step in which the tree source
\* fails sends no snapshot to the receiver that triggered it and leaves the
\* worker running with the registry lock released; the tree source is never
\* invoked again, and a later update_if_active call does not fail.
C29_FactoryFailureLocal ==
    /\ [][\A r \in Receivers :
             (w_recv[r] = "absent" /\ w_recv'[r] = "failed") =>
                 /\ w_out'[r] = <<>>
                 /\ worker' = "running"
                 /\ w_lock' = "free"]_vars
    /\ []((\E r \in Receivers : w_recv[r] = "failed") =>
             (Len(factory_thr) = 1 /\ app # "panic_uia"))

\* C30 (the supervisor survives an empty task set): the socket worker, which
\* starts with no connection task, does not fail.
C30_SupervisorSurvivesEmpty ==
    variant = "sock" => worker \in {"none", "spawned", "running", "exited"}

\* C31 (a non-empty registry means a forced tree): while the registry holds
\* a receiver, and while an UpdateTree command waits in the channel, the tree
\* has been forced; every UpdateTree command the worker handles extends the
\* tree by its update, so the updates applied and those still waiting are
\* together all the updates that were sent.
C31_RegistryImpliesForced ==
    /\ [](w_inst # {} => w_tree # Unforced)
    /\ [](\A k \in DOMAIN w_ch : w_ch[k].type = "UpdateTree" => w_tree # Unforced)
    /\ [][(WlHandleCommand /\ Head(w_ch).type = "UpdateTree") =>
             w_tree' = Append(w_tree, Head(w_ch).a)]_vars
    /\ []((w_tree # Unforced /\ app # "panic_uia") =>
             Len(w_tree) - 1 + Len(PendingUpdates(w_ch)) = nupd)

\* C31 witness: with a receiver in the registry, an update produced by
\* update_if_active has been applied to the tree.
C31_Witness ==
    /\ w_inst # {} /\ nupd = 1
    /\ w_tree = <<0, 1>>

\* C32 (no deadlock over the registry lock): the lock is held only by a
\* running worker, never by a thread that has ended; the worker that holds it
\* can always go on to release it, and does; and update_if_active can take
\* its step whenever the worker does not hold the lock, whatever else the
\* worker is doing, a poisoned lock being handed over at once as an error.
C32_NoLockDeadlock ==
    /\ [](w_lock = "worker" => (worker = "running" /\ ENABLED WlNewReceiverRegister))
    /\ (w_lock = "worker") ~> (w_lock # "worker")
    /\ []((/\ variant = "wl" /\ app \in {"live", "skipped"}
           /\ w_lock # "worker"
           /\ (w_lock = "poisoned" \/ w_inst = {} \/ nupd < MaxCalls))
             => ENABLED WlUpdateIfActive)

\* C32 witness: the worker has taken and released the lock for two receivers
\* and update_if_active has taken it in between or after.
C32_Witness ==
    /\ w_lock = "free" /\ Cardinality(w_inst) = 2
    /\ nupd = 1 /\ app = "live"

\* C33 (the worker's exit): the exit flag goes up only in the step that
\* handles an Exit command; when the loop breaks the flag is up and no
\* UpdateTree and no WriteUpdate command is left unhandled (every update sent
\* is in the tree, every announced pipe is armed); and once the flag is up
\* the loop's check breaks as soon as the worker's callback has returned, so
\* the worker stops running.
C33_ExitAfterCommands ==
    /\ [][(w_exit' /\ ~w_exit) => (WlHandleCommand /\ Head(w_ch).type = "Exit")]_vars
    /\ [][WlLoopExit =>
             /\ w_exit
             /\ PendingUpdates(w_ch) = <<>>
             /\ \A r \in Receivers : \A i \in DOMAIN w_out[r] : w_out[r][i].st # "cmd"]_vars
    /\ []((w_exit /\ WorkerIdle) => ENABLED WlLoopExit)
    /\ w_exit ~> (worker # "running")

\* C33 witness: the loop has ended through its exit check after an update and
\* the payload announced for it were handled.
C33_Witness ==
    /\ worker = "exited" /\ w_tree = <<0, 1>>
    /\ \E r \in Receivers : Len(w_out[r]) = 2 /\ w_out[r][2].st # "cmd"

\* C37 (fan-out never fails): every sender in tree_update_txs has its
\* receiver alive, and an iteration of handle_tree_updates sends the update to
\* every sender of the list and leaves the worker running.
C37_SendersHaveReceivers ==
    /\ [](\A r \in Receivers : s_txs[r].live => s_txs[r].rx = "live")
    /\ [][SockHandleTreeUpdate =>
             /\ worker' = "running"
             /\ \A r \in Receivers :
                   s_txs[r].live => Len(s_txs'[r].q) = Len(s_txs[r].q) + 1]_vars

\* C37 witness: one session has ended, and an update handled afterwards was
\* sent to the session that remains.
C37_Witness ==
    /\ variant = "sock" /\ worker = "running"
    /\ \E r, q \in Receivers :
          /\ s_txs[r].rx = "dropped"
          /\ s_txs[q].live /\ s_txs[q].q # <<>>
          /\ s_txs[q].q[Len(s_txs[q].q)] = SerializeUpdate(2)
          /\ s_tree = <<0, 1, 2>>

\* The node a do_action on platform node id pn is about.
TargetOf(pn) == IF pn = 0 THEN a_tree.root ELSE pn

\* C34 (do_action): the handler is invoked once for every do_action that
\* returns Ok and for no other; each invocation is made with the read guard
\* dropped, on a context that was alive when it was upgraded, with a request
\* whose target is the node the platform node id stands for, a node of the
\* tree; and a call returns Ok exactly when the context was alive and that
\* node is in the tree, node_not_found otherwise.
C34_DoActionOnce ==
    /\ \A k \in DOMAIN a_calls :
          /\ ~a_calls[k].guard /\ a_calls[k].alive
          /\ a_calls[k].req.target = TargetOf(a_calls[k].pn)
          /\ a_calls[k].req.target \in a_tree.nodes
    /\ Len(a_calls) = Cardinality({k \in DOMAIN a_rets : a_rets[k].ret = "ok"})
    /\ \A k \in DOMAIN a_rets :
          a_rets[k].ret = (IF a_rets[k].alive /\ TargetOf(a_rets[k].pn) \in a_tree.nodes
                              THEN "ok" ELSE "not_found")
    /\ a_node.guard => a_node.pc = "locked"

\* C34 witness: one do_action on the root invoked the handler, and a later
\* one, made after the Adapter was dropped, returned node_not_found.
C34_Witness ==
    /\ Len(a_calls) = 1 /\ a_calls[1].pn = 0
    /\ Len(a_rets) = 2 /\ a_rets[2].ret = "not_found" /\ ~a_rets[2].alive

\* C35 (the class cache is initialized once): a call of Adapter_initialize
\* that finds the cache filled leaves it as it is and returns JNI_TRUE; a
\* call that finds it empty either fills it and returns JNI_TRUE or leaves it
\* empty and returns JNI_FALSE.
C35_InitializedOnce ==
    \A k \in DOMAIN init_rets :
        LET c == init_rets[k] IN
        IF c.before # 0
           THEN c.after = c.before /\ c.ret
           ELSE c.ret = (c.after # 0)

\* The proper ancestors of node n.
RECURSIVE Ancestors(_, _)
Ancestors(t, n) == IF t.parent[n] = 0 THEN {} ELSE {t.parent[n]} \cup Ancestors(t, t.parent[n])

\* C36 (unignored_parent): the result of a call on node n is the proper
\* ancestor of n that is neither flagged ignored nor of role Presentation and
\* has every ancestor of n below it ignored; it is None exactly when n has no
\* such ancestor.
C36_NearestUnignored ==
    c_query.node # 0 =>
        LET n == c_query.node
            r == c_query.res
            Unignored == {a \in Ancestors(c_tree, n) :
                             ~c_tree.ignored[a] /\ c_tree.role[a] # "Presentation"}
        IN IF Unignored = {} THEN r = 0
           ELSE /\ r \in Unignored
                /\ \A a \in Unignored : a = r \/ a \in Ancestors(c_tree, r)

\* C36 witness: a call skipped a parent ignored for its role and a
\* grandparent ignored by its flag, and returned the ancestor above them.
C36_Witness ==
    /\ c_query.node = 4 /\ c_query.res = 1
    /\ c_tree.parent[4] = 3 /\ c_tree.parent[3] = 2
    /\ c_tree.role[3] = "Presentation" /\ ~c_tree.ignored[3]
    /\ c_tree.ignored[2] /\ c_tree.role[2] = "Button"

====
